---- MODULE Spec2Model ----
(***************************************************************************)
(* Recording pipeline of the two front ends of the repository:             *)
(*   VoiceToText          (src/voicetotext.py)          variant "vtt"       *)
(*   VoiceSampleCollector (src/collect_voice_samples.py) variant "collector"*)
(* Both share the fields recording, audio_data, resample_buffer and        *)
(* current_samplerate, the capture thread record_audio and the stream      *)
(* callback audio_callback.  Statements that read or write shared fields   *)
(* are separate steps, so that the control thread, the capture threads and *)
(* the stream callbacks interleave as Python threads do.                   *)
(*                                                                         *)
(* Amplitudes are integers in units of 0.0001.  An array is a record       *)
(*   ids  : the captured chunks it was built from, in order; a chunk is    *)
(*          named by its delivery number and the session it arrived in     *)
(*   src  : the native-rate samples it was built from, in order            *)
(*   n    : its own number of samples                                      *)
(*   conv : "none" (values are src), "resampy", "interp" or "mixed"        *)
(***************************************************************************)
EXTENDS Integers, Sequences, FiniteSets, TLC

\* ------------------------------------------------------------------ bounds
MaxSessions == 2
MaxChunks == 4
BlockFrames == 3
MaxLen == 12
MaxShutdownChunks == 2

\* ------------------------------------------------------- program constants
target_samplerate == 16000
EnergyThreshold == 5
FlushThreshold == 4
None == 0
blocksize == 1024

Variants == {"vtt", "collector"}
Rates == {16000, 44100}
Peaks == {4, -5}
Blank == " "
Texts == {<<Blank>>, <<Blank, "a", Blank>>}
Threads == 1..MaxSessions

\* indata as delivered by the stream: BlockFrames frames of one channel each
Indata == {[i \in 1..BlockFrames |-> <<IF i = 1 THEN p ELSE 0>>] : p \in Peaks}

NoArr == [ids |-> <<>>, src |-> <<>>, n |-> 0, conv |-> "none"]

\* ------------------------------------------------------------ pure helpers
Abs(x) == IF x < 0 THEN -x ELSE x

RECURSIVE flatten(_)
flatten(indata) ==
    IF indata = <<>> THEN <<>> ELSE Head(indata) \o flatten(Tail(indata))

RECURSIVE MaxAbs(_)
MaxAbs(a) ==
    IF Len(a) = 1 THEN Abs(a[1])
    ELSE LET m == MaxAbs(Tail(a)) IN IF Abs(a[1]) > m THEN Abs(a[1]) ELSE m

TooQuiet_Inverted(audio) == MaxAbs(audio) > EnergyThreshold
\* np.max(np.abs(audio_data)) < 0.0005
TooQuiet(audio) == MaxAbs(audio) < EnergyThreshold

Chunk(id, sess, audio) ==
    [ids |-> <<[id |-> id, sess |-> sess]>>, src |-> audio, n |-> Len(audio),
     conv |-> "none"]

\* np.concatenate of a non-empty list of arrays
RECURSIVE concatenate(_)
concatenate(list) ==
    IF Len(list) = 1 THEN list[1]
    ELSE LET h == list[1]
             r == concatenate(Tail(list))
         IN [ids |-> h.ids \o r.ids, src |-> h.src \o r.src, n |-> h.n + r.n,
             conv |-> IF h.conv = r.conv THEN h.conv ELSE "mixed"]

ConvertedLen_Swapped(n, native, target) == (n * native) \div target
\* output length of a rate conversion: int(len * target / native)
ConvertedLen(n, native, target) == (n * target) \div native

\* resampy.resample rejects a non-positive rate and an output shorter than 1
ResampyRejects(x, native, target) ==
    \/ native <= 0
    \/ ConvertedLen(x.n, native, target) < 1

resampy_resample(x, native, target) ==
    [x EXCEPT !.n = ConvertedLen(x.n, native, target), !.conv = "resampy"]

\* np.interp(np.linspace(0, orig_len, new_len), np.arange(orig_len), data)
linear_interp(x, native, target) ==
    [x EXCEPT !.n = ConvertedLen(x.n, native, target), !.conv = "interp"]

RECURSIVE lstrip(_)
lstrip(s) == IF s # <<>> /\ Head(s) = Blank THEN lstrip(Tail(s)) ELSE s
RECURSIVE rstrip(_)
rstrip(s) ==
    IF s # <<>> /\ s[Len(s)] = Blank THEN rstrip(SubSeq(s, 1, Len(s) - 1)) ELSE s
strip_LeadingOnly(s) == lstrip(s)
\* str.strip()
strip(s) == rstrip(lstrip(s))

\* ------------------------------------------------------------------- state
VARIABLES
    variant,            \* which front end runs
    resampy_ok,         \* whether "import resampy" succeeds
    model,              \* self.model: "none" until whisper.load_model returned
    interp_in, interp_out,  \* the fallback conversion taken alone: input, output
    current_keys,       \* VoiceToText: keys the listener holds as pressed
    recording, running, audio_data, resample_buffer, current_samplerate,
    record_thread,      \* collector: the thread stop_recording joins (0: none)
    tpc,                \* capture thread t: position in record_audio
    cbpc, cb_data,      \* stream callback of thread t: position, local array
    ctlpc, ctl_audio,   \* control thread: position, local array
    mainpc,             \* main(): listener / menu position
    transcriptions,     \* collector: stored transcriptions
    session,            \* number of sessions started (threads spawned)
    delivered,          \* number of chunks handed to audio_callback so far
    admitted,           \* chunks that passed the gate since the last start
    transcribed,        \* calls of model.transcribe since the last start
    typed               \* calls of keyboard_controller.type since the last start

vars == <<variant, resampy_ok, model, interp_in, interp_out, current_keys, recording, running, audio_data, resample_buffer,
          current_samplerate, record_thread, tpc, cbpc, cb_data, ctlpc,
          ctl_audio, mainpc, transcriptions, session, delivered, admitted,
          transcribed, typed>>

shared == <<recording, running, audio_data, resample_buffer, current_samplerate>>
capture == <<tpc, cbpc, cb_data>>
control == <<ctlpc, ctl_audio, mainpc, record_thread, session>>
history == <<transcriptions, delivered, admitted, transcribed, typed>>
settings == <<variant, resampy_ok, model, interp_in, interp_out>>
config == <<variant, resampy_ok, model, interp_in, interp_out, current_keys>>

NoInput == [x |-> NoArr, native |-> None, target |-> None]

\* the fields as __init__ sets them
Constructed ==
    /\ variant \in Variants
    /\ resampy_ok \in BOOLEAN
    /\ (variant = "vtt" => resampy_ok)      \* voicetotext.py imports it at load
    /\ model = "none"
    /\ recording = FALSE
    /\ running = TRUE
    /\ audio_data = <<>>
    /\ resample_buffer = <<>>
    /\ current_samplerate = None
    /\ record_thread = 0
    /\ tpc = [t \in Threads |-> "unborn"]
    /\ cbpc = [t \in Threads |-> "idle"]
    /\ cb_data = [t \in Threads |-> NoArr]
    /\ ctlpc = "idle"
    /\ ctl_audio = NoArr
    /\ mainpc = "startup"
    /\ session = 0
    /\ transcriptions = {}
    /\ delivered = 0
    /\ admitted = 0
    /\ transcribed = <<>>
    /\ typed = <<>>

Init ==
    /\ Constructed
    /\ current_keys = {}
    /\ interp_in = NoInput
    /\ interp_out = NoArr


\* --------------------------------------------------- conversion at a flush
Raised == [raised |-> TRUE, data |-> NoArr]
Returned(x) == [raised |-> FALSE, data |-> x]

call_resampy(x, fails) ==
    IF fails \/ ResampyRejects(x, current_samplerate, target_samplerate)
    THEN Raised
    ELSE Returned(resampy_resample(x, current_samplerate, target_samplerate))

\* the conversion of the 4-chunk flush; fails: the library call raises
callback_convert(x, fails) ==
    IF variant = "vtt"
    THEN call_resampy(x, fails)
    ELSE IF current_samplerate # target_samplerate
         THEN IF resampy_ok
              THEN call_resampy(x, fails)
              ELSE Returned(linear_interp(x, current_samplerate, target_samplerate))
         ELSE Returned(x)

\* the conversion of the remainder flush at stop
final_convert(x, fails) ==
    IF current_samplerate # target_samplerate
    THEN IF resampy_ok THEN call_resampy(x, fails) ELSE Raised
    ELSE Returned(x)

\* ---------------------------------------------------------- capture thread
Lookups ==
    {[found |-> FALSE, rate |-> None]} \cup {[found |-> TRUE, rate |-> r] : r \in Rates}

\* the input device keeps its default_samplerate while the program runs
SameDevice(d) == current_samplerate = None \/ d.rate = current_samplerate

Alive(t) == tpc[t] \in {"spawned", "polling", "closing"}

LoopCondition_IgnoreFlag == running
\* while self.recording and self.running / while self.recording
LoopCondition ==
    IF variant = "vtt" THEN recording /\ running ELSE recording

\* record_audio up to the polling loop: device lookup, current_samplerate,
\* sd.InputStream(...).  A lookup that raises or finds no input device, and a
\* stream that fails to open, end the thread.
record_audio(t) ==
    /\ tpc[t] = "spawned"
    /\ \E d \in Lookups, opened \in BOOLEAN :
         IF d.found
         THEN /\ SameDevice(d)
              /\ current_samplerate' = d.rate
              /\ tpc' = [tpc EXCEPT ![t] = IF opened THEN "polling" ELSE "failed"]
         ELSE /\ tpc' = [tpc EXCEPT ![t] = "failed"]
              /\ UNCHANGED current_samplerate
    /\ UNCHANGED <<recording, running, audio_data, resample_buffer, cbpc, cb_data,
                   control, history, config>>

\* the polling loop finds its condition false and leaves the with block
record_audio_poll(t) ==
    /\ tpc[t] = "polling"
    /\ ~LoopCondition
    /\ tpc' = [tpc EXCEPT ![t] = "closing"]
    /\ UNCHANGED <<shared, cbpc, cb_data, control, history, config>>

\* the stream is closed once its callback in progress has returned
record_audio_close(t) ==
    /\ tpc[t] = "closing"
    /\ cbpc[t] \in {"idle", "escaped"}
    /\ tpc' = [tpc EXCEPT ![t] = "done"]
    /\ UNCHANGED <<shared, cbpc, cb_data, control, history, config>>

\* --------------------------------------------------------- stream callback
\* the session a chunk arrives in: sessions are counted when their thread is
\* spawned, and a session begins when its start is requested
CurrentSession ==
    IF ctlpc = "branch" /\ recording THEN session + 1 ELSE session

\* flatten, energy gate, append to resample_buffer
Deliver(t, indata) ==
    /\ tpc[t] \in {"polling", "closing"}      \* the stream is open
    /\ cbpc[t] = "idle"
    /\ delivered < MaxChunks
    /\ delivered' = delivered + 1
    /\ LET audio == flatten(indata)
       IN IF TooQuiet(audio)
          THEN UNCHANGED <<resample_buffer, cbpc, admitted>>
          ELSE /\ resample_buffer' =
                    Append(resample_buffer, Chunk(delivered + 1, CurrentSession, audio))
               /\ cbpc' = [cbpc EXCEPT ![t] = "check"]
               /\ admitted' = admitted + 1
    /\ UNCHANGED <<recording, running, audio_data, current_samplerate, tpc, cb_data,
                   control, transcribed, typed, transcriptions, config>>

\* a statement ahead of the try block (indata.flatten(), np.max(np.abs(...)),
\* resample_buffer.append) raises: no handler encloses it, the exception
\* leaves audio_callback and the stream calls it no more
Escape(t) ==
    /\ tpc[t] \in {"polling", "closing"}
    /\ cbpc[t] = "idle"
    /\ delivered < MaxChunks
    /\ delivered' = delivered + 1
    /\ cbpc' = [cbpc EXCEPT ![t] = "escaped"]
    /\ UNCHANGED <<shared, tpc, cb_data, control, transcriptions, admitted,
                   transcribed, typed, config>>

audio_callback(t) ==
    \/ \E indata \in Indata : Deliver(t, indata)
    \/ Escape(t)

\* if len(self.resample_buffer) >= 4
audio_callback_check(t) ==
    /\ cbpc[t] = "check"
    /\ cbpc' = [cbpc EXCEPT ![t] =
                  IF Len(resample_buffer) >= FlushThreshold THEN "convert" ELSE "idle"]
    /\ UNCHANGED <<shared, tpc, cb_data, control, history, config>>

\* np.concatenate(self.resample_buffer) and the rate conversion
audio_callback_convert(t) ==
    /\ cbpc[t] = "convert"
    /\ IF resample_buffer = <<>>
       THEN /\ cbpc' = [cbpc EXCEPT ![t] = "except"]
            /\ UNCHANGED cb_data
       ELSE \E fails \in BOOLEAN :
              LET r == callback_convert(concatenate(resample_buffer), fails)
              IN IF r.raised
                 THEN /\ cbpc' = [cbpc EXCEPT ![t] = "except"]
                      /\ UNCHANGED cb_data
                 ELSE /\ cbpc' = [cbpc EXCEPT ![t] = "store"]
                      /\ cb_data' = [cb_data EXCEPT ![t] = r.data]
    /\ UNCHANGED <<shared, tpc, control, history, config>>

\* self.audio_data.append(...)
audio_callback_store(t) ==
    /\ cbpc[t] = "store"
    /\ audio_data' = Append(audio_data, cb_data[t])
    /\ cbpc' = [cbpc EXCEPT ![t] = "clear"]
    /\ cb_data' = [cb_data EXCEPT ![t] = NoArr]
    /\ UNCHANGED <<recording, running, resample_buffer, current_samplerate, tpc,
                   control, history, config>>

ClearedBuffer_Kept(buffer) == buffer
\* self.resample_buffer = []
ClearedBuffer(buffer) == <<>>

\* the last statement of the try block
audio_callback_clear(t) ==
    /\ cbpc[t] = "clear"
    /\ resample_buffer' = ClearedBuffer(resample_buffer)
    /\ cbpc' = [cbpc EXCEPT ![t] = "idle"]
    /\ UNCHANGED <<recording, running, audio_data, current_samplerate, tpc, cb_data,
                   control, history, config>>

\* except Exception: the buffer is dropped
audio_callback_except(t) ==
    /\ cbpc[t] = "except"
    /\ resample_buffer' = ClearedBuffer(resample_buffer)
    /\ cbpc' = [cbpc EXCEPT ![t] = "idle"]
    /\ UNCHANGED <<recording, running, audio_data, current_samplerate, tpc, cb_data,
                   control, history, config>>

\* ---------------------------------------------------------- control thread
\* a new capture thread: threading.Thread(target=self.record_audio).start()
Spawn ==
    /\ tpc' = [tpc EXCEPT ![session + 1] = "spawned"]
    /\ session' = session + 1

\* the per-session histories start over when a start is requested
NewSession ==
    /\ admitted' = 0
    /\ transcribed' = <<>>
    /\ typed' = <<>>

\* if self.resample_buffer
flush_check ==
    /\ ctlpc = "flush_check"
    /\ ctlpc' = IF resample_buffer # <<>> THEN "flush_convert" ELSE "result"
    /\ UNCHANGED <<shared, capture, ctl_audio, mainpc, record_thread, session,
                   history, config>>

\* np.concatenate(self.resample_buffer) and the rate conversion
flush_convert ==
    /\ ctlpc = "flush_convert"
    /\ IF resample_buffer = <<>>
       THEN /\ ctlpc' = "flush_except"
            /\ UNCHANGED ctl_audio
       ELSE \E fails \in BOOLEAN :
              LET r == final_convert(concatenate(resample_buffer), fails)
              IN IF r.raised
                 THEN /\ ctlpc' = "flush_except"
                      /\ UNCHANGED ctl_audio
                 ELSE /\ ctlpc' = "flush_store"
                      /\ ctl_audio' = r.data
    /\ UNCHANGED <<shared, capture, mainpc, record_thread, session, history, config>>

\* self.audio_data.append(audio_data); the local keeps the converted
\* remainder until the stop operation returns
flush_store ==
    /\ ctlpc = "flush_store"
    /\ audio_data' = Append(audio_data, ctl_audio)
    /\ ctlpc' = "flush_clear"
    /\ UNCHANGED <<recording, running, resample_buffer, current_samplerate, capture,
                   ctl_audio, mainpc, record_thread, session, history, config>>

\* self.resample_buffer = []
flush_clear ==
    /\ ctlpc = "flush_clear"
    /\ resample_buffer' = <<>>
    /\ ctlpc' = "result"
    /\ UNCHANGED <<recording, running, audio_data, current_samplerate, capture,
                   ctl_audio, mainpc, record_thread, session, history, config>>

\* except Exception: only a message is printed
flush_except ==
    /\ ctlpc = "flush_except"
    /\ ctlpc' = "result"
    /\ UNCHANGED <<shared, capture, ctl_audio, mainpc, record_thread, session,
                   history, config>>

\* outcomes of model.transcribe: it raises, or returns a text
Outcomes ==
    {[raised |-> TRUE, text |-> <<>>]} \cup {[raised |-> FALSE, text |-> x] : x \in Texts}

\* a call of model.transcribe: its input, whether it raised, result["text"]
TranscribeCall(out) ==
    [audio |-> concatenate(audio_data), raised |-> out.raised, text |-> out.text]

insert_text_Retry(text, ok) ==
    IF strip(text) # <<>>
    THEN IF ok THEN Append(typed, [text |-> text, raised |-> FALSE])
         ELSE typed \o <<[text |-> text, raised |-> TRUE], [text |-> text, raised |-> TRUE]>>
    ELSE typed
\* insert_text: keyboard_controller.type(text) unless text is blank
insert_text(text, ok) ==
    IF strip(text) # <<>>
    THEN Append(typed, [text |-> text, raised |-> ~ok])
    ELSE typed

ResultTyped_Unchecked(out, ok) == Append(typed, [text |-> out.text, raised |-> ~ok])
\* what is typed after model.transcribe: nothing if it raised or the text is blank
ResultTyped(out, ok) ==
    IF ~out.raised /\ strip(out.text) # <<>>
    THEN insert_text(strip(out.text), ok)
    ELSE typed

\* ------------------------------------------------------------- startup
\* main() once the object is constructed: the hotkey listener runs
\* (VoiceToText) or the menu is shown (VoiceSampleCollector)
Ready == IF variant = "vtt" THEN "listening" ELSE "menu"

AfterSetup_Continue(loaded) == Ready
\* setup_model returns if the model was loaded and calls sys.exit(1) if not
AfterSetup(loaded) == IF loaded THEN Ready ELSE "aborted"

\* self.setup_model(), the last statement of __init__
setup_model ==
    /\ mainpc = "startup"
    /\ \E loaded \in BOOLEAN :
         /\ model' = IF loaded THEN "loaded" ELSE "none"
         /\ mainpc' = AfterSetup(loaded)
    /\ UNCHANGED <<shared, capture, ctlpc, ctl_audio, record_thread, session,
                   history, variant, resampy_ok, interp_in, interp_out, current_keys>>

\* ------------------------------------------------- VoiceToText (control)
\* self.recording = not self.recording
Toggle ==
    /\ variant = "vtt"
    /\ mainpc \in {"listening", "cleaned"}
    /\ ctlpc = "idle"
    /\ recording \/ session < MaxSessions
    /\ recording' = ~recording
    /\ ctlpc' = "branch"
    /\ IF recording THEN UNCHANGED <<admitted, transcribed, typed>> ELSE NewSession
    /\ UNCHANGED <<running, audio_data, resample_buffer, current_samplerate, capture,
                   ctl_audio, mainpc, record_thread, session, transcriptions,
                   delivered, settings>>

\* toggle_recording entered on a recognised hotkey
toggle_recording == Toggle /\ UNCHANGED current_keys

\* ------------------------------------------------ VoiceToText (listener)
Ctrl == {"ctrl_l", "ctrl_r"}
Alt == {"alt_l", "alt_r"}
Keys == Ctrl \cup Alt \cup {"v", "x"}

\* a Ctrl and an Alt key are held and the key pressed has the char 'v'
Hotkey(keys, key) ==
    /\ keys \cap Ctrl # {}
    /\ keys \cap Alt # {}
    /\ key = "v"

KeysAfterHotkey_Kept(keys) == keys
\* self.current_keys.clear()
KeysAfterHotkey(keys) == {}

\* on_press runs on the listener thread, as toggle_recording does: the next
\* key event is handled when the previous handler has returned
on_press(key) ==
    /\ variant = "vtt"
    /\ mainpc \in {"listening", "cleaned"}
    /\ ctlpc = "idle"
    /\ LET keys == current_keys \cup {key}
       IN IF Hotkey(keys, key)
          THEN /\ current_keys' = KeysAfterHotkey(keys)
               /\ Toggle
          ELSE /\ current_keys' = keys
               /\ UNCHANGED <<shared, capture, control, history, settings>>

\* self.current_keys.discard(key)
on_release(key) ==
    /\ variant = "vtt"
    /\ mainpc \in {"listening", "cleaned"}
    /\ ctlpc = "idle"
    /\ current_keys' = current_keys \ {key}
    /\ UNCHANGED <<shared, capture, control, history, settings>>

\* if self.recording: clear audio_data and start the thread; else: stop
toggle_recording_branch ==
    /\ ctlpc = "branch"
    /\ IF recording
       THEN /\ audio_data' = <<>>
            /\ Spawn
            /\ ctlpc' = "idle"
       ELSE /\ ctlpc' = "flush_check"
            /\ UNCHANGED <<audio_data, tpc, session>>
    /\ UNCHANGED <<recording, running, resample_buffer, current_samplerate, cbpc,
                   cb_data, ctl_audio, mainpc, record_thread, history, config>>

\* "Get final result": transcribe the combined audio and type the text
toggle_recording_result ==
    /\ variant = "vtt"
    /\ ctlpc = "result"
    /\ ctlpc' = "idle"
    /\ IF audio_data = <<>>
       THEN UNCHANGED <<transcribed, typed>>
       ELSE \E out \in Outcomes, ok \in BOOLEAN :
              /\ transcribed' = Append(transcribed, TranscribeCall(out))
              /\ typed' = ResultTyped(out, ok)
    /\ ctl_audio' = NoArr
    /\ UNCHANGED <<shared, capture, mainpc, record_thread, session,
                   delivered, admitted, transcriptions, config>>

cleanup_KeepsRecording ==
    /\ variant = "vtt"
    /\ mainpc = "listening"
    /\ running' = FALSE
    /\ mainpc' = "cleaned"
    /\ UNCHANGED <<recording, audio_data, resample_buffer, current_samplerate, capture,
                   ctlpc, ctl_audio, record_thread, session, history, config>>
\* cleanup(), called by the SIGINT handler on the main thread
cleanup ==
    /\ variant = "vtt"
    /\ mainpc = "listening"
    /\ running' = FALSE
    /\ recording' = FALSE
    /\ mainpc' = "cleaned"
    /\ UNCHANGED <<audio_data, resample_buffer, current_samplerate, capture, ctlpc,
                   ctl_audio, record_thread, session, history, config>>

\* listener.stop(): no hotkey is handled any more
listener_stop ==
    /\ mainpc = "cleaned"
    /\ mainpc' = "exited"
    /\ UNCHANGED <<shared, capture, ctlpc, ctl_audio, record_thread, session,
                   history, config>>

\* ---------------------------------------- VoiceSampleCollector (control)
StartRecording ==
    /\ variant = "collector"
    /\ ctlpc = "idle"
    /\ session < MaxSessions
    /\ recording' = TRUE
    /\ audio_data' = <<>>
    /\ record_thread' = session + 1
    /\ Spawn
    /\ NewSession
    /\ UNCHANGED <<running, resample_buffer, current_samplerate, cbpc, cb_data, ctlpc,
                   ctl_audio, transcriptions, delivered, config>>

\* main(): collector.start_recording() after the first Enter
start_recording ==
    /\ mainpc = "menu"
    /\ mainpc' = "recording"
    /\ StartRecording

\* main(): collector.stop_recording() after the second Enter
stop_recording ==
    /\ variant = "collector"
    /\ mainpc = "recording"
    /\ ctlpc = "idle"
    /\ recording' = FALSE
    /\ ctlpc' = "join"
    /\ UNCHANGED <<running, audio_data, resample_buffer, current_samplerate, capture,
                   ctl_audio, mainpc, record_thread, session, history, config>>

\* self.record_thread.join()
stop_recording_join ==
    /\ ctlpc = "join"
    /\ ~Alive(record_thread)
    /\ ctlpc' = "flush_check"
    /\ UNCHANGED <<shared, capture, ctl_audio, mainpc, record_thread, session,
                   history, config>>

Choices == {"1", "2", "3", "4"}
Entries == {<<>>, <<"b">>}

\* the review dialogue after a transcription
Reviewed(text, choice, entry) ==
    LET file == session
        put(x) == {e \in transcriptions : e.file # file} \cup {[file |-> file, text |-> x]}
    IN IF strip(text) # <<>>
       THEN IF choice = "1" THEN put(strip(text))
            ELSE IF choice = "2" THEN put(IF entry # <<>> THEN entry ELSE strip(text))
            ELSE transcriptions
       ELSE IF entry # <<>> THEN put(entry) ELSE transcriptions

\* "Get final result": write the sample, transcribe it, review the text
stop_recording_result ==
    /\ variant = "collector"
    /\ ctlpc = "result"
    /\ ctlpc' = "idle"
    /\ mainpc' = "menu"
    /\ IF audio_data = <<>>
       THEN UNCHANGED <<transcribed, transcriptions>>
       ELSE \E written \in BOOLEAN :
              IF ~written
              THEN UNCHANGED <<transcribed, transcriptions>>
              ELSE \E out \in Outcomes, choice \in Choices, entry \in Entries :
                     /\ transcribed' = Append(transcribed, TranscribeCall(out))
                     /\ transcriptions' = IF out.raised THEN transcriptions
                                          ELSE Reviewed(out.text, choice, entry)
    /\ ctl_audio' = NoArr
    /\ UNCHANGED <<shared, capture, record_thread, session, delivered,
                   admitted, typed, config>>

\* ----------------------------------------------------------- specification
Next ==
    \/ setup_model
    \/ toggle_recording
    \/ toggle_recording_branch
    \/ toggle_recording_result
    \/ cleanup
    \/ listener_stop
    \/ start_recording
    \/ stop_recording
    \/ stop_recording_join
    \/ stop_recording_result
    \/ flush_check
    \/ flush_convert
    \/ flush_store
    \/ flush_clear
    \/ flush_except
    \/ \E t \in Threads :
         \/ record_audio(t)
         \/ record_audio_poll(t)
         \/ record_audio_close(t)
         \/ audio_callback(t)
         \/ audio_callback_check(t)
         \/ audio_callback_convert(t)
         \/ audio_callback_store(t)
         \/ audio_callback_clear(t)
         \/ audio_callback_except(t)

Spec == Init /\ [][Next]_vars

\* VoiceSampleCollector.start_recording called again before stop_recording
start_recording_again ==
    /\ mainpc = "recording"
    /\ UNCHANGED mainpc
    /\ StartRecording

NextApi == Next \/ start_recording_again

SpecApi == Init /\ [][NextApi]_vars

\* a callback that was entered runs to its end
audio_callback_running(t) ==
    \/ audio_callback_check(t)
    \/ audio_callback_convert(t)
    \/ audio_callback_store(t)
    \/ audio_callback_clear(t)
    \/ audio_callback_except(t)

\* a toggle or a stop that was entered runs to its end
control_running ==
    \/ toggle_recording_branch
    \/ toggle_recording_result
    \/ stop_recording_join
    \/ stop_recording_result
    \/ flush_check
    \/ flush_convert
    \/ flush_store
    \/ flush_clear
    \/ flush_except

\* Python schedules every thread that can run: a capture thread, a callback
\* in progress and the control thread inside an operation take their next
\* step.  Key presses, SIGINT and the arrival of chunks are not forced.
Fairness ==
    /\ WF_vars(control_running)
    /\ \A t \in Threads :
          /\ WF_vars(record_audio(t))
          /\ WF_vars(record_audio_poll(t))
          /\ WF_vars(record_audio_close(t))
          /\ WF_vars(audio_callback_running(t))

SpecFair == Spec /\ Fairness

\* ------------------------------------------------- VoiceToText at shutdown
\* VoiceToText with sessions of at most MaxShutdownChunks chunks, too few
\* for a 4-chunk flush: toggles, SIGINT, capture threads and their callbacks
InitShutdown == Init /\ variant = "vtt"

NextShutdown ==
    \/ setup_model
    \/ toggle_recording
    \/ toggle_recording_branch
    \/ toggle_recording_result
    \/ cleanup
    \/ listener_stop
    \/ flush_check
    \/ flush_convert
    \/ flush_store
    \/ flush_clear
    \/ flush_except
    \/ \E t \in Threads :
         \/ record_audio(t)
         \/ record_audio_poll(t)
         \/ record_audio_close(t)
         \/ (delivered < MaxShutdownChunks /\ audio_callback(t))
         \/ audio_callback_check(t)

SpecShutdown == InitShutdown /\ [][NextShutdown]_vars /\ Fairness

\* ---------------------------------------- VoiceToText with its key events
\* VoiceToText driven by key presses and releases, with no audio arriving
InitKeys == Init /\ variant = "vtt"

NextKeys ==
    \/ setup_model
    \/ \E key \in Keys : on_press(key)
    \/ \E key \in Keys : on_release(key)
    \/ toggle_recording_branch
    \/ flush_check
    \/ toggle_recording_result
    \/ \E t \in Threads :
         \/ record_audio(t)
         \/ record_audio_poll(t)
         \/ record_audio_close(t)

SpecKeys == InitKeys /\ [][NextKeys]_vars

\* ------------------------------------------- the fallback conversion alone
\* lengths of buffer_data: short ones, one block, and the four blocks of a flush
Lengths == (1..MaxLen) \cup {blocksize, FlushThreshold * blocksize}
InterpRates == {8000, 16000, 22050, 44100, 48000}

\* buffer_data of a given length
Silence(len) ==
    [ids |-> <<>>, src |-> [i \in 1..len |-> 0], n |-> len, conv |-> "none"]

InterpInputs ==
    {[x |-> Silence(len), native |-> r1, target |-> r2] :
        len \in Lengths, r1 \in InterpRates, r2 \in InterpRates}

InitInterp ==
    /\ Constructed
    /\ current_keys = {}
    /\ variant = "collector"
    /\ ~resampy_ok
    /\ interp_in \in InterpInputs
    /\ interp_out = NoArr

\* the except ImportError branch of the callback's conversion
interpolate ==
    /\ interp_in # NoInput
    /\ interp_out = NoArr
    /\ interp_out' = linear_interp(interp_in.x, interp_in.native, interp_in.target)
    /\ UNCHANGED <<shared, capture, control, history, variant, resampy_ok, model,
                   interp_in, current_keys>>

SpecInterp == InitInterp /\ [][interpolate]_vars

\* ------------------------------------------------------------------ claims
Finalizing ==
    ctlpc \in {"flush_check", "flush_convert", "flush_store", "flush_clear",
               "flush_except", "result"}

CallbacksIdle == \A t \in Threads : cbpc[t] \in {"idle", "escaped"}

Last(seq) == seq[Len(seq)]

\* C1: while the control thread reads or flushes resample_buffer and
\* audio_data at a stop, no capture callback is running and no stream is open
\* to deliver one (stated for the time before cleanup).
C1_JoinBeforeFlush ==
    (running /\ Finalizing) =>
        \A t \in Threads : cbpc[t] = "idle" /\ tpc[t] \notin {"polling", "closing"}

\* C2: outside a callback invocation resample_buffer holds at most 3 chunks.
C2_BufferBelowThreshold ==
    CallbacksIdle => Len(resample_buffer) < FlushThreshold

\* a session admitted 4 chunks, its flush raised, and the callback returned
\* with the buffer emptied
C2_Witness ==
    /\ CallbacksIdle
    /\ ctlpc = "idle"
    /\ recording
    /\ admitted = FlushThreshold
    /\ audio_data = <<>>
    /\ resample_buffer = <<>>

\* the chunks (slices of BlockFrames native samples) an array was built from
ChunksOf(arr) ==
    {SubSeq(arr.src, (k - 1) * BlockFrames + 1, k * BlockFrames) : k \in 1..Len(arr.ids)}

Stored ==
    {resample_buffer[i] : i \in 1..Len(resample_buffer)}
        \cup {audio_data[i] : i \in 1..Len(audio_data)}
        \cup {transcribed[i].audio : i \in 1..Len(transcribed)}
        \cup {cb_data[t] : t \in Threads} \cup {ctl_audio}

NoQuietChunkStored ==
    \A arr \in Stored : \A c \in ChunksOf(arr) : MaxAbs(c) >= EnergyThreshold

QuietChunkChangesNothing ==
    delivered' # delivered =>
        \A t \in Threads, indata \in Indata :
            (MaxAbs(flatten(indata)) < EnergyThreshold /\ Deliver(t, indata))
                => UNCHANGED <<resample_buffer, audio_data>>

\* C3: a chunk whose peak is below the energy threshold is in no buffer and
\* in no accumulated or transcribed audio, and the callback that receives it
\* leaves resample_buffer and audio_data unchanged.
C3_QuietChunkNeverStored == []NoQuietChunkStored /\ [][QuietChunkChangesNothing]_vars

\* the first session is recording, and the one chunk delivered so far was
\* rejected
C3_Witness ==
    /\ session = 1
    /\ recording
    /\ ctlpc = "idle"
    /\ delivered = 1
    /\ admitted = 0
    /\ tpc[1] = "polling"

\* C4: start_recording invoked while recording spawns no thread and leaves
\* audio_data alone.
C4_StartWhileRecordingIsNoOp ==
    [][(recording /\ StartRecording) => UNCHANGED <<tpc, audio_data>>]_vars

\* C5: at most one capture thread is alive (stated for the time before
\* cleanup).
C5_OneCaptureThread == running => Cardinality({t \in Threads : Alive(t)}) <= 1

\* C6: in VoiceToText, once the capture thread of the current session has
\* failed to find or open the device, the recording flag is clear and nothing
\* is transcribed.
C6_DeviceFailureReturnsToIdle ==
    (variant = "vtt" /\ session >= 1 /\ tpc[session] = "failed" /\ ctlpc = "idle")
        => (~recording /\ transcribed = <<>>)

EngineRaises ==
    /\ Len(transcribed') = Len(transcribed) + 1
    /\ Last(transcribed').raised

\* C7: the step in which model.transcribe raises ends the stop operation with
\* the recording flag clear, types nothing and makes no second call; the
\* control thread is then ready for the next toggle.
C7_EngineFailureEndsIdle ==
    [][EngineRaises =>
         /\ ctlpc' = "idle"
         /\ ~recording'
         /\ typed' = typed
         /\ transcribed' = Append(transcribed, Last(transcribed'))
         /\ UNCHANGED <<audio_data, resample_buffer, tpc, session>>]_vars

\* a stop whose transcription raised has completed
C7_Witness ==
    /\ transcribed # <<>>
    /\ Last(transcribed).raised
    /\ ctlpc = "idle"
    /\ ~recording

\* C8: after the handler of a failed conversion, in the callback and at stop
\* alike, resample_buffer is empty and audio_data has gained nothing.
C8_FailedConversionDiscards ==
    [][((ctlpc = "flush_except" /\ ctlpc' = "result")
          \/ \E t \in Threads : cbpc[t] = "except" /\ cbpc'[t] = "idle")
         => (resample_buffer' = <<>> /\ audio_data' = audio_data)]_vars

\* C9: in a session that admitted no chunk, model.transcribe is not called
\* and nothing is typed (stated for the time before cleanup).
C9_SilentSessionNoTranscription ==
    (running /\ admitted = 0) => (transcribed = <<>> /\ typed = <<>>)

FromSession(arr, s) == \A j \in 1..Len(arr.ids) : arr.ids[j].sess = s

\* C10: once a session has started, audio_data and resample_buffer hold only
\* chunks that arrived during it, and so does the audio it transcribes
\* (stated for the time before cleanup).
C10_OnlyThisSessionsChunks ==
    /\ (running /\ recording /\ ctlpc = "idle") =>
          /\ \A i \in 1..Len(audio_data) : FromSession(audio_data[i], session)
          /\ \A i \in 1..Len(resample_buffer) : FromSession(resample_buffer[i], session)
    /\ running =>
          \A i \in 1..Len(transcribed) : FromSession(transcribed[i].audio, session)

\* C11: when the stop operation reaches the transcription after a remainder
\* flush of 1 to 3 chunks that did not raise, the converted remainder is the
\* last element of audio_data and holds its chunks in arrival order (stated
\* for the time before cleanup).
C11_RemainderIsLastBeforeTranscription ==
    (running /\ ctlpc = "result" /\ ctl_audio # NoArr
             /\ Len(ctl_audio.ids) < FlushThreshold) =>
        /\ audio_data # <<>>
        /\ Last(audio_data) = ctl_audio
        /\ \A j \in 1..(Len(ctl_audio.ids) - 1) :
              ctl_audio.ids[j].id < ctl_audio.ids[j + 1].id

\* the chunks of an array are in arrival order, each of them once
InArrivalOrder(arr) ==
    \A j \in 1..(Len(arr.ids) - 1) : arr.ids[j].id < arr.ids[j + 1].id

\* C12: in VoiceToText, model.transcribe is called at most once per session
\* and never while the session records; its input holds the chunks in
\* arrival order; and once the stop operation has returned, a session with
\* accumulated audio has had exactly one call, whose input was the
\* concatenation of all of audio_data (stated for the time before cleanup).
C12_TranscribedOnceAfterStop ==
    (variant = "vtt" /\ running) =>
        /\ Len(transcribed) <= 1
        /\ recording => transcribed = <<>>
        /\ \A i \in 1..Len(transcribed) : InArrivalOrder(transcribed[i].audio)
        /\ (~recording /\ ctlpc = "idle" /\ audio_data # <<>>) =>
              /\ Len(transcribed) = 1
              /\ transcribed[1].audio = concatenate(audio_data)

\* C13: a capture thread that is alive when the recording flag is false
\* eventually terminates, whatever toggles follow (under Fairness).
C13_CaptureThreadTerminates ==
    \A t \in Threads : (Alive(t) /\ ~recording) ~> ~Alive(t)

\* C14: in an Idle state after a session whose audio was handed to the
\* engine, audio_data and resample_buffer are empty (stated for the time
\* before cleanup).
C14_SessionAudioReleased ==
    (running /\ ~recording /\ ctlpc = "idle" /\ transcribed # <<>>)
        => (audio_data = <<>> /\ resample_buffer = <<>>)

\* C15: no exception leaves audio_callback unhandled.
C15_NoExceptionEscapes == \A t \in Threads : cbpc[t] # "escaped"

Trimmed(text) == text # <<>> /\ Head(text) # Blank /\ Last(text) # Blank

\* C16: keyboard_controller.type is called only with a non-empty text that
\* neither starts nor ends with whitespace, and not at all in a session whose
\* recognized text is blank after trimming.
C16_TypedTextIsTrimmed ==
    /\ \A i \in 1..Len(typed) : Trimmed(typed[i].text)
    /\ \A i \in 1..Len(transcribed) :
          strip(transcribed[i].text) = <<>> => typed = <<>>

\* the engine returned " a " and "a" was typed
C16_Witness ==
    /\ Len(transcribed) = 1
    /\ transcribed[1].text = <<Blank, "a", Blank>>
    /\ Len(typed) = 1
    /\ typed[1].text = <<"a">>

TypingRaises ==
    /\ Len(typed') > Len(typed)
    /\ Last(typed').raised

AfterTypingRaised ==
    typed # <<>> /\ Last(typed).raised /\ ctlpc = "idle"

\* C17: the step in which keyboard_controller.type raises ends the stop
\* operation with the recording flag clear, after one call of the engine and
\* one call of the sink, and leaves the session's audio and threads as they
\* were; the controller then accepts the next toggle, which starts a new
\* session.
C17_TypingFailureEndsIdle ==
    /\ [][TypingRaises =>
            /\ ctlpc' = "idle"
            /\ ~recording'
            /\ typed' = Append(typed, Last(typed'))
            /\ transcribed' = Append(transcribed, Last(transcribed'))
            /\ UNCHANGED <<audio_data, resample_buffer, tpc, session>>]_vars
    /\ []((AfterTypingRaised /\ mainpc = "listening" /\ session < MaxSessions)
            => ENABLED toggle_recording)
    /\ [][(AfterTypingRaised /\ toggle_recording)
            => (recording' /\ typed' = <<>> /\ transcribed' = <<>>)]_vars

\* a stop in which typing the recognized text raised has completed
C17_Witness ==
    /\ AfterTypingRaised
    /\ ~recording
    /\ Len(typed) = 1
    /\ Len(transcribed) = 1

\* C18: while the model is not loaded, that is before setup_model has
\* returned and for ever after it has failed, the hotkey listener and the
\* menu are not running, no toggle has been handled and no capture thread
\* exists.
C18_NoModelNoListener ==
    model # "loaded" =>
        /\ mainpc \in {"startup", "aborted"}
        /\ ~recording
        /\ ctlpc = "idle"
        /\ session = 0
        /\ \A t \in Threads : tpc[t] = "unborn"

\* the model failed to load and the process has exited
C18_Witness == mainpc = "aborted" /\ model = "none"

\* an array that went through no conversion: its samples are its sources
Unconverted(arr) == arr.conv = "none" /\ arr.n = Len(arr.src)

\* C19: when the device's rate is the target rate, every element of
\* audio_data, the one a callback is about to append and the one the stop is
\* about to append are unconverted in-order concatenations of chunks.
C19_EqualRatesNoResampling ==
    current_samplerate = target_samplerate =>
        /\ \A i \in 1..Len(audio_data) :
              Unconverted(audio_data[i]) /\ InArrivalOrder(audio_data[i])
        /\ \A t \in Threads : Unconverted(cb_data[t])
        /\ Unconverted(ctl_audio)

\* Python's round of the quotient a / b of two positive integers
Round(a, b) ==
    LET q == a \div b
        r == a % b
    IN IF 2 * r < b THEN q
       ELSE IF 2 * r > b THEN q + 1
       ELSE IF q % 2 = 0 THEN q ELSE q + 1

\* C20: the output of the linear-interpolation fallback for an input of L
\* samples at rate R1 converted to rate R2 has a length within 1 of
\* round(L * R2 / R1); for 4096 samples from 44100 to 16000 it is within 1
\* of 1486.
C20_FallbackLengthWithinOne ==
    interp_out.conv = "interp" =>
        /\ Abs(interp_out.n - Round(interp_in.x.n * interp_in.target, interp_in.native)) <= 1
        /\ (interp_in.x.n = 4096 /\ interp_in.native = 44100 /\ interp_in.target = 16000)
              => Abs(interp_out.n - 1486) <= 1

\* four blocks of 1024 samples were converted from 44100 to 16000
C20_Witness ==
    /\ interp_in.x.n = FlushThreshold * blocksize
    /\ interp_in.native = 44100
    /\ interp_in.target = target_samplerate
    /\ interp_out.conv = "interp"
    /\ interp_out.n = 1486

\* C21: between two callbacks of a recording session, audio_data holds at
\* most one element per four admitted chunks of the session, and each
\* element is built from exactly four chunks in arrival order (stated for
\* the time before cleanup).
C21_FlushOnEveryFourthChunk ==
    (running /\ recording /\ ctlpc = "idle" /\ CallbacksIdle) =>
        /\ Len(audio_data) <= admitted \div FlushThreshold
        /\ \A i \in 1..Len(audio_data) :
              Len(audio_data[i].ids) = FlushThreshold /\ InArrivalOrder(audio_data[i])

\* a conversion point is passed: the callback's or the stop's
CallbackConverts(t) == cbpc[t] = "convert" /\ cbpc'[t] # "convert"
StopConverts == ctlpc = "flush_convert" /\ ctlpc' # "flush_convert"

\* C22: without resampy and with a device rate other than the target rate,
\* each conversion of a non-empty buffer, in the callback and at stop,
\* yields the linear interpolation of the buffered audio, which is appended
\* to audio_data next.
C22_FallbackAtEveryConversion ==
    [][(~resampy_ok /\ current_samplerate # target_samplerate
                    /\ resample_buffer # <<>>) =>
          /\ \A t \in Threads :
                CallbackConverts(t) =>
                    /\ cbpc'[t] = "store"
                    /\ cb_data'[t] = linear_interp(concatenate(resample_buffer),
                                                   current_samplerate, target_samplerate)
          /\ StopConverts =>
                /\ ctlpc' = "flush_store"
                /\ ctl_audio' = linear_interp(concatenate(resample_buffer),
                                              current_samplerate, target_samplerate)]_vars

\* the chunks audio_data was built from, element after element
RECURSIVE Contributions(_)
Contributions(list) ==
    IF list = <<>> THEN <<>> ELSE Head(list).ids \o Contributions(Tail(list))

\* C23: no chunk is in audio_data twice (stated for the time before
\* cleanup).
C23_ChunkContributesOnce ==
    running =>
        LET c == Contributions(audio_data)
        IN \A i, j \in 1..Len(c) : c[i] = c[j] => i = j

CleanupReturns == mainpc = "listening" /\ mainpc' = "cleaned"

\* C24: the step of cleanup leaves running and recording false and changes
\* neither the buffers, nor the position of the control thread, nor the
\* calls of the engine and of the sink; running stays false from then on;
\* and every capture thread alive while running is false eventually
\* terminates (under Fairness).
C24_CleanupStopsCapture ==
    /\ [][CleanupReturns =>
            /\ ~running' /\ ~recording'
            /\ UNCHANGED <<audio_data, resample_buffer, ctlpc, ctl_audio,
                           transcribed, typed, transcriptions>>]_vars
    /\ [][~running => ~running']_vars
    /\ \A t \in Threads : (~running /\ Alive(t)) ~> ~Alive(t)

\* cleanup was called during the first session, which had buffered audio;
\* its thread has ended and nothing was transcribed
C24_Witness ==
    /\ mainpc = "cleaned"
    /\ ~running /\ ~recording
    /\ ctlpc = "idle"
    /\ session = 1
    /\ tpc[1] = "done"
    /\ resample_buffer # <<>>
    /\ transcribed = <<>>

ToggleCalled == ctlpc = "idle" /\ ctlpc' = "branch"

\* C25: toggle_recording is entered only in the step of a press of 'v' taken
\* with a Ctrl key and an Alt key in current_keys, and that step leaves
\* current_keys empty; a key enters current_keys only by its own press; a
\* press of 'v' without a Ctrl key or without an Alt key in current_keys
\* toggles nothing.  So a Ctrl press and an Alt press lie between any two
\* toggles.
C25_HotkeyNeedsCtrlAltAgain ==
    /\ [][ToggleCalled =>
            /\ on_press("v")
            /\ current_keys \cap Ctrl # {}
            /\ current_keys \cap Alt # {}
            /\ current_keys' = {}]_vars
    /\ [][\A k \in Keys :
            (k \in current_keys' /\ k \notin current_keys) => on_press(k)]_vars
    /\ [][((current_keys \cap Ctrl = {} \/ current_keys \cap Alt = {}) /\ on_press("v"))
            => UNCHANGED <<recording, ctlpc>>]_vars

\* the second toggle, the stop of the first session, has just been called
C25_Witness ==
    /\ session = 1
    /\ ~recording
    /\ ctlpc = "branch"
    /\ current_keys = {}

====
